---- MODULE Spec2Model ----
(***************************************************************************)
(* Model of tenant_schemas/models.py: the tenant resolver (get_tenant),    *)
(* the batch delete of tenants (TenantQueryset.delete), the tenant save    *)
(* and its post_schema_sync signal (TenantMixin.save), the system checks   *)
(* of shared tables (MultitenantMixin.check) and the primary-domain save   *)
(* (DomainMixin.save).                                                     *)
(***************************************************************************)
EXTENDS Integers, Sequences, FiniteSets, TLC

\* ------------------------------------------------------------------ bounds
\* Primary keys the domain table's sequence hands out.
MaxRecords == 3
\* Number of tenants owning domains.
NumTenants == 2
\* Number of distinct domain names a caller may ask for.
NumDomains == 2

Tenants == 1..NumTenants
Domains == 1..NumDomains
\* The units of work that may call DomainMixin.save.
Procs == {"w1", "w2"}
\* pk of a model instance that was never saved (Python None).
NoPk == 0

\* Tenant instances held by callers, rows of the tenant table, schema names.
MaxInstances == 2
MaxTenantRows == 2
NumSchemas == 2
\* Entities one TenantQueryset.delete iterates over, and rows one delete cascades to.
MaxBatch == 3
MaxCascade == 1

\* Fields of a checked model class, and its unique_together constraints.
MaxFields == 3
MaxUnique == 2

Insts == 1..MaxInstances
Schemas == 1..NumSchemas

VARIABLES
    db,       \* committed rows of the domain table: pk -> row
    nextpk,   \* next value of the domain table's pk sequence
    tx,       \* per unit of work: the running DomainMixin.save and its open transaction
    ttable,   \* rows of the tenant table: pk -> row
    tnextpk,  \* next value of the tenant table's pk sequence
    tinst,    \* tenant model instances in memory: their pk and schema_name
    signals,  \* per instance, how often post_schema_sync was sent with it
    lastSave, \* how the last TenantMixin.save ended
    conn,     \* connection.tenant
    resolved, \* how the last get_tenant() call ended
    deleted,  \* how the last TenantQueryset.delete() call ended
    cls,      \* the model class (table definition) handed to check()
    checked   \* how the last cls.check() call ended

domainVars == <<db, nextpk, tx>>
tenantVars == <<ttable, tnextpk, tinst, signals, lastSave, conn, resolved>>
deleteVars == <<deleted>>
checkVars == <<cls, checked>>
nonDomainVars == <<tenantVars, deleteVars, checkVars>>
nonTenantVars == <<domainVars, deleteVars, checkVars>>
vars == <<db, nextpk, tx, ttable, tnextpk, tinst, signals, lastSave, conn,
          resolved, deleted, cls, checked>>

\* ------------------------------------------------------- the storage layer
\* The function with no rows.
Empty == [k \in {} |-> 0]

\* f with g's rows written over it.
Merge(f, g) ==
    [k \in (DOMAIN f) \cup (DOMAIN g) |-> IF k \in DOMAIN g THEN g[k] ELSE f[k]]

Row(t, d, b) == [tenant |-> t, domain |-> d, is_primary |-> b]

\* What the statements of p's transaction read under read committed: the
\* committed rows and p's own uncommitted writes.
Visible(p) == Merge(db, tx[p].wr)

\* Rows another open transaction has written and not yet committed: a write to
\* one of them waits for that transaction to end.
LockedByOther(p) == UNION {DOMAIN tx[q].wr : q \in Procs \ {p}}

\* A unique index on domain: rows (other than pk) that already hold name d.
DomainHolders(view, pk, d) == {k \in DOMAIN view : k # pk /\ view[k].domain = d}

\* The committed table while a transaction.atomic block is open and has written wr:
\* nothing of wr is committed before the block exits.
CommittedInAtomicUnsafe(committed, wr) == Merge(committed, wr)
CommittedInAtomic(committed, wr) == committed

\* ----------------------------------------------------- DomainMixin.save
\* domain_list: the other rows of the tenant that are primary.
DomainListAnyTenant(view, pk, t) ==
    {k \in DOMAIN view : view[k].is_primary /\ k # pk}
DomainList(view, pk, t) ==
    {k \in DOMAIN view : view[k].tenant = t /\ view[k].is_primary /\ k # pk}

\* self.is_primary = self.is_primary or (not domain_list.exists())
IsPrimaryAsRequested(is_primary, others) == is_primary
IsPrimaryAfter(is_primary, others) == is_primary \/ (others = {})

\* domain_list.update(is_primary=False), run only if self.is_primary
DemotionNone(view, is_primary, others) == Empty
Demotion(view, is_primary, others) ==
    IF is_primary
    THEN [k \in others |-> [view[k] EXCEPT !.is_primary = FALSE]]
    ELSE Empty

Idle(p) == tx[p].pc \in {"idle", "done", "failed"}

IdleTx == [pc |-> "idle", pk |-> NoPk, tenant |-> 1, domain |-> 1,
           is_primary |-> FALSE, req |-> FALSE, isNew |-> FALSE,
           before |-> {}, start |-> Empty, wr |-> Empty]

\* A caller enters save on an instance: the transaction.atomic block begins.
Enter(p, pk, t, d, b) ==
    /\ Idle(p)
    /\ tx' = [tx EXCEPT ![p] =
                [pc |-> "begun", pk |-> pk, tenant |-> t, domain |-> d,
                 is_primary |-> b, req |-> b, isNew |-> (pk = NoPk),
                 before |-> DomainList(db, pk, t), start |-> db, wr |-> Empty]]
    /\ UNCHANGED <<db, nextpk, nonDomainVars>>

\* save() of a new instance (pk is None).
BeginNew(p) ==
    \E t \in Tenants, d \in Domains, b \in BOOLEAN :
        /\ nextpk <= MaxRecords
        /\ Enter(p, NoPk, t, d, b)

\* save() of an instance loaded from the table, its tenant unchanged.
BeginResave(p) ==
    \E pk \in DOMAIN db, d \in Domains, b \in BOOLEAN :
        Enter(p, pk, db[pk].tenant, d, b)

\* save() of an instance loaded from the table after its tenant was set to
\* another tenant.
BeginMove(p) ==
    \E pk \in DOMAIN db, d \in Domains, b \in BOOLEAN :
        \E t \in Tenants \ {db[pk].tenant} :
            Enter(p, pk, t, d, b)

\* Line 227. Python's `or` runs domain_list.exists() only if self.is_primary is false.
ComputePrimary(p) ==
    /\ tx[p].pc = "begun"
    /\ tx' = [tx EXCEPT ![p].pc = "computed",
                        ![p].is_primary =
                            IsPrimaryAfter(tx[p].is_primary,
                                           DomainList(Visible(p), tx[p].pk, tx[p].tenant))]
    /\ UNCHANGED <<db, nextpk, nonDomainVars>>

\* Lines 228-230. The UPDATE runs over the rows that match now; it waits while
\* one of them is write-locked by another open transaction.
Demote(p) ==
    /\ tx[p].pc = "computed"
    /\ LET others == DomainList(Visible(p), tx[p].pk, tx[p].tenant)
           w == Demotion(Visible(p), tx[p].is_primary, others)
       IN  /\ (DOMAIN w) \cap LockedByOther(p) = {}
           /\ tx' = [tx EXCEPT ![p].pc = "demoted", ![p].wr = Merge(tx[p].wr, w)]
           /\ db' = CommittedInAtomic(db, Merge(tx[p].wr, w))
    /\ UNCHANGED <<nextpk, nonDomainVars>>

\* Line 231, super().save(): INSERT for a new instance, UPDATE otherwise. The
\* statement waits for an open transaction that holds the row or the domain
\* name; a committed row with the same domain makes it fail, and the atomic
\* block rolls back.
Persist(p) ==
    /\ tx[p].pc = "demoted"
    /\ UNCHANGED nonDomainVars
    /\ tx[p].pk \notin LockedByOther(p)
    /\ \A q \in Procs \ {p} : DomainHolders(tx[q].wr, tx[p].pk, tx[p].domain) = {}
    /\ LET pk == IF tx[p].isNew THEN nextpk ELSE tx[p].pk
           row == Row(tx[p].tenant, tx[p].domain, tx[p].is_primary)
       IN  \/ /\ DomainHolders(Visible(p), tx[p].pk, tx[p].domain) = {}
              /\ tx' = [tx EXCEPT ![p].pc = "persisted", ![p].pk = pk,
                                  ![p].wr = Merge(tx[p].wr, [k \in {pk} |-> row])]
              /\ nextpk' = IF tx[p].isNew THEN nextpk + 1 ELSE nextpk
              /\ db' = CommittedInAtomic(db, Merge(tx[p].wr, [k \in {pk} |-> row]))
           \/ /\ DomainHolders(Visible(p), tx[p].pk, tx[p].domain) # {}
              /\ tx' = [tx EXCEPT ![p].pc = "failed", ![p].wr = Empty]
              /\ UNCHANGED <<db, nextpk>>

\* The atomic block exits normally: the transaction commits.
Commit(p) ==
    /\ tx[p].pc = "persisted"
    /\ db' = Merge(db, tx[p].wr)
    /\ tx' = [tx EXCEPT ![p].pc = "done", ![p].wr = Empty]
    /\ UNCHANGED <<nextpk, nonDomainVars>>

\* The store ends a transaction that waits in a lock cycle (deadlock
\* detection): the statement raises and the atomic block rolls back.
Blocked(p) ==
    \/ /\ tx[p].pc = "computed"
       /\ DOMAIN Demotion(Visible(p), tx[p].is_primary,
                          DomainList(Visible(p), tx[p].pk, tx[p].tenant))
            \cap LockedByOther(p) # {}
    \/ /\ tx[p].pc = "demoted"
       /\ \/ tx[p].pk \in LockedByOther(p)
          \/ \E q \in Procs \ {p} :
                DomainHolders(tx[q].wr, tx[p].pk, tx[p].domain) # {}

DeadlockAbort(p) ==
    /\ \A q \in Procs : Blocked(q)
    /\ tx' = [tx EXCEPT ![p].pc = "failed", ![p].wr = Empty]
    /\ UNCHANGED <<db, nextpk, nonDomainVars>>

SaveStep(p) ==
    \/ BeginNew(p)
    \/ BeginResave(p)
    \/ ComputePrimary(p)
    \/ Demote(p)
    \/ Persist(p)
    \/ Commit(p)

\* --------------------------------------------------------- get_tenant
\* connection.tenant: None, an instance of the tenant model, or another object
\* that carries a schema_name.
NoConn == [kind |-> "none", inst |-> 0, schema_name |-> 0]
ModelConn(o) == [kind |-> "model", inst |-> o, schema_name |-> tinst[o].schema_name]
OtherConn(s) == [kind |-> "other", inst |-> 0, schema_name |-> s]

\* What get_tenant returns: the bound instance itself, or a fresh unsaved
\* model(schema_name=...); "raised" when it raises instead.
NoTenant == [inst |-> 0, pk |-> NoPk, schema_name |-> 0]

GetTenantDefault(c) ==
    IF c.kind = "none"
    THEN [raised |-> FALSE, tenant |-> [inst |-> 0, pk |-> NoPk, schema_name |-> 1]]
    ELSE [raised |-> FALSE,
          tenant |-> [inst |-> c.inst,
                      pk |-> IF c.kind = "model" THEN tinst[c.inst].pk ELSE NoPk,
                      schema_name |-> c.schema_name]]
GetTenant(c) ==
    IF c.kind = "none"
    THEN [raised |-> TRUE, tenant |-> NoTenant]
    ELSE [raised |-> FALSE,
          tenant |-> [inst |-> c.inst,
                      pk |-> IF c.kind = "model" THEN tinst[c.inst].pk ELSE NoPk,
                      schema_name |-> c.schema_name]]

\* The session collaborator binds a tenant to the connection, or clears it.
SetTenant ==
    /\ \E c \in {NoConn} \cup {ModelConn(o) : o \in Insts}
                         \cup {OtherConn(sn) : sn \in Schemas} :
           conn' = c
    /\ UNCHANGED <<ttable, tnextpk, tinst, signals, lastSave, resolved, nonTenantVars>>

\* A call of get_tenant().
CallGetTenant ==
    /\ resolved' = [called |-> TRUE, conn |-> conn, out |-> GetTenant(conn)]
    /\ UNCHANGED <<ttable, tnextpk, tinst, signals, lastSave, conn, nonTenantVars>>

\* ------------------------------------------------------ TenantMixin.save
\* `if self.pk is None`, evaluated after super().save() returned.
SendsSignal(pkBefore, pkAfter) == pkAfter = NoPk

\* Rows (other than pk) that hold schema_name sn: the unique index on it.
SchemaHolders(pk, sn) == {k \in DOMAIN ttable : k # pk /\ ttable[k].schema_name = sn}

\* save() on instance o; receiverRaises: whether a receiver of post_schema_sync
\* would raise (send() lets a receiver's exception through).
TenantSave(o, receiverRaises) ==
    LET pk0 == tinst[o].pk
        pk1 == IF pk0 = NoPk THEN tnextpk ELSE pk0
    IN  /\ pk0 = NoPk => tnextpk <= MaxTenantRows
        /\ IF SchemaHolders(pk0, tinst[o].schema_name) # {}
           THEN \* super().save() raises IntegrityError; nothing is written
                /\ lastSave' = [inst |-> o, outcome |-> "store_error"]
                /\ UNCHANGED <<ttable, tnextpk, tinst, signals>>
           ELSE /\ ttable' = Merge(ttable, [k \in {pk1} |-> [schema_name |-> tinst[o].schema_name]])
                /\ tnextpk' = IF pk0 = NoPk THEN tnextpk + 1 ELSE tnextpk
                /\ tinst' = [tinst EXCEPT ![o].pk = pk1]
                /\ IF SendsSignal(pk0, pk1)
                   THEN /\ signals' = [signals EXCEPT ![o] = @ + 1]
                        /\ lastSave' = [inst |-> o,
                                        outcome |-> IF receiverRaises THEN "receiver_error" ELSE "ok"]
                   ELSE /\ signals' = signals
                        /\ lastSave' = [inst |-> o, outcome |-> "ok"]
        /\ UNCHANGED <<conn, resolved, nonTenantVars>>

SaveTenant == \E o \in Insts, receiverRaises \in BOOLEAN : TenantSave(o, receiverRaises)

\* ------------------------------------------------- TenantQueryset.delete
Tables == {"Tenant", "Domain"}

\* What obj.delete() of one tenant does: it raises, returns None, or returns
\* (count, {table: count}); removed: whether the row is gone afterwards.
Outcome(kind, count, detail, removed) ==
    [kind |-> kind, count |-> count, detail |-> detail, removed |-> removed]

DeleteOutcomes ==
    {Outcome("raise", 0, Empty, FALSE), Outcome("tuple", 0, Empty, FALSE)}
    \cup {Outcome("none", 0, Empty, r) : r \in BOOLEAN}
    \cup {Outcome("tuple", 1 + c,
                  [t \in (IF c = 0 THEN {"Tenant"} ELSE Tables) |->
                      IF t = "Tenant" THEN 1 ELSE c],
                  TRUE) : c \in 0..MaxCascade}

\* counter_dict.update(current_counter_dict)
DictUpdate(d, e) == Merge(d, e)

\* The for loop of delete(): the state after the objects of batch were visited
\* in order, or after the first obj.delete() that raised.
DeleteLoopSwallow(batch, outs) ==
    LET f[i \in 0..Len(batch)] ==
            IF i = 0
            THEN [raised |-> FALSE, counter |-> 0, counter_dict |-> Empty, gone |-> {}]
            ELSE LET prev == f[i - 1]
                     o == outs[i]
                 IN  IF o.kind = "raise" THEN prev
                     ELSE [raised |-> FALSE,
                           counter |-> IF o.kind = "tuple"
                                       THEN prev.counter + o.count ELSE prev.counter,
                           counter_dict |-> IF o.kind = "tuple"
                                            THEN DictUpdate(prev.counter_dict, o.detail)
                                            ELSE prev.counter_dict,
                           gone |-> prev.gone \cup (IF o.removed THEN {batch[i]} ELSE {})]
    IN  f[Len(batch)]
DeleteLoopCountNone(batch, outs) ==
    LET f[i \in 0..Len(batch)] ==
            IF i = 0
            THEN [raised |-> FALSE, counter |-> 0, counter_dict |-> Empty, gone |-> {}]
            ELSE LET prev == f[i - 1]
                     o == outs[i]
                 IN  IF prev.raised THEN prev
                     ELSE IF o.kind = "raise" THEN [prev EXCEPT !.raised = TRUE]
                     ELSE [raised |-> FALSE,
                           counter |-> prev.counter + (IF o.kind = "tuple" THEN o.count ELSE 1),
                           counter_dict |-> DictUpdate(prev.counter_dict, o.detail),
                           gone |-> prev.gone \cup (IF o.removed THEN {batch[i]} ELSE {})]
    IN  f[Len(batch)]
DeleteLoop(batch, outs) ==
    LET f[i \in 0..Len(batch)] ==
            IF i = 0
            THEN [raised |-> FALSE, counter |-> 0, counter_dict |-> Empty, gone |-> {}]
            ELSE LET prev == f[i - 1]
                     o == outs[i]
                 IN  IF prev.raised THEN prev
                     ELSE IF o.kind = "raise" THEN [prev EXCEPT !.raised = TRUE]
                     ELSE [raised |-> FALSE,
                           counter |-> IF o.kind = "tuple"
                                       THEN prev.counter + o.count ELSE prev.counter,
                           counter_dict |-> IF o.kind = "tuple"
                                            THEN DictUpdate(prev.counter_dict, o.detail)
                                            ELSE prev.counter_dict,
                           gone |-> prev.gone \cup (IF o.removed THEN {batch[i]} ELSE {})]
    IN  f[Len(batch)]

\* A queryset: some rows of the table, each once, in some order.
Batches(rows) ==
    {b \in UNION {[1..n -> rows] : n \in 0..MaxBatch} :
        \A i, j \in DOMAIN b : i # j => b[i] # b[j]}

\* delete() on a queryset. It returns (counter, counter_dict) if counter is not
\* zero and None otherwise, and raises what an obj.delete() raised. One call is
\* followed per behaviour, from each table the initial states offer.
QuerysetDelete ==
    /\ ~deleted.called
    /\ \E batch \in Batches(DOMAIN ttable) :
      \E outs \in [DOMAIN batch -> DeleteOutcomes] :
        LET end == DeleteLoop(batch, outs)
            returns == ~end.raised /\ end.counter # 0
        IN  /\ deleted' = [called |-> TRUE, batch |-> batch, outs |-> outs,
                           returned |-> IF end.raised THEN "raised"
                                        ELSE IF returns THEN "tuple" ELSE "none",
                           counter |-> IF returns THEN end.counter ELSE 0,
                           counter_dict |-> IF returns THEN end.counter_dict ELSE Empty,
                           gone |-> end.gone, before |-> DOMAIN ttable]
            /\ ttable' = [k \in (DOMAIN ttable) \ end.gone |-> ttable[k]]
            /\ UNCHANGED <<tnextpk, tinst, signals, lastSave, conn, resolved, domainVars, checkVars>>

\* ------------------------------------------------ MultitenantMixin.check
\* A field of cls._meta.get_fields(). kind is the field class; through is the
\* association model of a ManyToManyField.
NoThrough == [object_name |-> "", tenant |-> "absent", auto_created |-> FALSE]
Field(name, kind, pk, unique, through) ==
    [name |-> name, kind |-> kind, primary_key |-> pk, unique |-> unique,
     through |-> through]

\* Association models: the kind of their field named tenant ("absent" if none).
Throughs ==
    {[object_name |-> "Invoice_tags", tenant |-> "absent", auto_created |-> TRUE],
     [object_name |-> "InvoiceTag", tenant |-> "ForeignKey", auto_created |-> FALSE],
     [object_name |-> "InvoiceLabel", tenant |-> "RLSForeignKey", auto_created |-> FALSE]}

\* The fields the checked classes are built from.
FieldPool ==
    {Field("id", "AutoField", TRUE, TRUE, NoThrough),
     Field("tenant", "RLSForeignKey", FALSE, FALSE, NoThrough),
     Field("tenant", "ForeignKey", FALSE, FALSE, NoThrough),
     Field("tenant", "CharField", FALSE, FALSE, NoThrough),
     Field("email", "CharField", FALSE, TRUE, NoThrough),
     Field("name", "CharField", FALSE, FALSE, NoThrough),
     Field("owner", "OneToOneField", FALSE, TRUE, NoThrough)}
    \cup {Field("tags", "ManyToManyField", FALSE, FALSE, th) : th \in Throughs}

\* The column sets unique_together constraints are built from.
UniquePool == {{"tenant", "name"}, {"name", "email"}, {"email", "owner"}}

\* isinstance(field, RelatedField), isinstance(field, RLSForeignKey)
IsRelatedField(f) ==
    f.kind \in {"ForeignKey", "RLSForeignKey", "OneToOneField", "ManyToManyField"}
IsRLSForeignKey(kind) == kind = "RLSForeignKey"

\* The model classes: up to MaxFields fields with distinct names, up to
\* MaxUnique unique_together constraints over columns of the class.
ObjectNames == {"Invoice", "Customer"}
FieldLists ==
    {q \in UNION {[1..n -> FieldPool] : n \in 0..MaxFields} :
        \A i, j \in DOMAIN q : i # j => q[i].name # q[j].name}
UniqueLists == UNION {[1..n -> UniquePool] : n \in 0..MaxUnique}
Classes ==
    {c \in [object_name : ObjectNames, fields : FieldLists,
            unique_together : UniqueLists] :
        \A i \in DOMAIN c.unique_together :
            c.unique_together[i] \subseteq {c.fields[k].name : k \in DOMAIN c.fields}}

\* A check message, or the exception a check raised.
Message(level, object_name, check, code, subject) ==
    [level |-> level, id |-> <<"tenant_schemas", object_name, check, code>>,
     msg |-> subject]
Returned(errors) == [raised |-> "none", errors |-> errors]
Raised(exc) == [raised |-> exc, errors |-> <<>>]

\* _get_tenant_field: the first field named tenant, or None.
NoField == Field("", "None", FALSE, FALSE, NoThrough)
GetTenantField(c) ==
    LET tenant_fields == SelectSeq(c.fields, LAMBDA f : f.name = "tenant")
    IN  IF tenant_fields # <<>> THEN tenant_fields[1] ELSE NoField

\* _run_check_tenant_field. checks.WARNING is django's integer level 30, not the
\* Warning class: calling it raises TypeError.
RunCheckTenantFieldSilent(c) == Returned(<<>>)
RunCheckTenantField(c) ==
    LET tenant_field == GetTenantField(c)
    IN  IF tenant_field = NoField
        THEN Returned(<<Message("Critical", c.object_name, "tenant_field", "C001",
                                <<"tenant field not present in", c.object_name>>)>>)
        ELSE IF ~IsRLSForeignKey(tenant_field.kind)
        THEN Raised("TypeError")
        ELSE Returned(<<>>)

\* _run_check_m2m_fields
M2MWarnings(c, f) ==
    IF f.kind # "ManyToManyField" THEN <<>>
    ELSE IF f.through.tenant = "absent"
    THEN <<Message("Warning", f.through.object_name, "m2m_field", "W001",
                   <<"tenant field not present in Many2Many",
                     IF f.through.auto_created THEN "auto-created" ELSE "manual",
                     f.through.object_name>>)>>
    ELSE IF ~IsRLSForeignKey(f.through.tenant)
    THEN <<Message("Warning", f.through.object_name, "m2m_field", "W002",
                   <<"tenant field isn't instance of RLSForeignKey in",
                     f.through.object_name>>)>>
    ELSE <<>>

RunCheckM2MFields(c) ==
    LET warnings[i \in 0..Len(c.fields)] ==
            IF i = 0 THEN <<>> ELSE warnings[i - 1] \o M2MWarnings(c, c.fields[i])
    IN  Returned(warnings[Len(c.fields)])

\* _run_check_unique_together: tenant_field.name is read for every constraint,
\* and raises AttributeError when tenant_field is None.
UniqueTogetherWarnings(c, tenant_field, unique_together) ==
    IF tenant_field.name \notin unique_together
    THEN <<Message("Warning", c.object_name, "unique_together_without_tenant", "W001",
                   <<"tenant field isn't in unique_together in", c.object_name,
                     unique_together>>)>>
    ELSE <<>>

RunCheckUniqueTogether(c) ==
    LET tenant_field == GetTenantField(c)
        warnings[i \in 0..Len(c.unique_together)] ==
            IF i = 0 THEN <<>>
            ELSE warnings[i - 1]
                 \o UniqueTogetherWarnings(c, tenant_field, c.unique_together[i])
    IN  IF c.unique_together = <<>> THEN Returned(<<>>)
        ELSE IF tenant_field = NoField THEN Raised("AttributeError")
        ELSE Returned(warnings[Len(c.unique_together)])

\* _run_check_uniques
UniqueWarnings(c, f) ==
    IF ~IsRelatedField(f) /\ ~f.primary_key /\ f.unique
    THEN <<Message("Warning", c.object_name, "unique", "W001",
                   <<"Field marked as unique in", f.name, c.object_name>>)>>
    ELSE <<>>

RunCheckUniques(c) ==
    LET warnings[i \in 0..Len(c.fields)] ==
            IF i = 0 THEN <<>> ELSE warnings[i - 1] \o UniqueWarnings(c, c.fields[i])
    IN  Returned(warnings[Len(c.fields)])

\* check(): the four checks in order, their messages appended to those of
\* super().check() (django's own model checks, taken to report nothing); the
\* first check that raises ends the call.
Extend(acc, r) ==
    IF acc.raised # "none" THEN acc
    ELSE IF r.raised # "none" THEN Raised(r.raised)
    ELSE Returned(acc.errors \o r.errors)

Check(c) ==
    Extend(Extend(Extend(Extend(Returned(<<>>), RunCheckTenantField(c)),
                         RunCheckM2MFields(c)),
                  RunCheckUniqueTogether(c)),
           RunCheckUniques(c))

\* cls.check() is called on the class.
RunCheck ==
    /\ ~checked.ran
    /\ checked' = [ran |-> TRUE, result |-> Check(cls),
                   tenant_field |-> RunCheckTenantField(cls)]
    /\ cls' = cls
    /\ UNCHANGED <<domainVars, tenantVars, deleteVars>>

NotChecked == checked = [ran |-> FALSE, result |-> Returned(<<>>), tenant_field |-> Returned(<<>>)]

NoClass == [object_name |-> "Invoice", fields |-> <<>>, unique_together |-> <<>>]

DomainInit ==
    /\ db = Empty
    /\ nextpk = 1
    /\ tx = [p \in Procs |-> IdleTx]

TenantTableEmpty ==
    /\ ttable = Empty
    /\ tnextpk = 1

TenantInit ==
    /\ signals = [o \in Insts |-> 0]
    /\ lastSave = [inst |-> 0, outcome |-> "none"]
    /\ conn = NoConn
    /\ resolved = [called |-> FALSE, conn |-> NoConn, out |-> [raised |-> FALSE, tenant |-> NoTenant]]

\* Instances constructed and not yet saved.
NewInstances == [Insts -> [pk : {NoPk}, schema_name : Schemas]]

DeleteIdle ==
    deleted = [called |-> FALSE, batch |-> <<>>, outs |-> <<>>, returned |-> "none",
               counter |-> 0, counter_dict |-> Empty, gone |-> {}, before |-> {}]

CheckIdle == cls = NoClass /\ NotChecked

\* Instances held by callers in the specifications that do not save tenants.
NoInstances == tinst = [o \in Insts |-> [pk |-> NoPk, schema_name |-> 1]]

\* The state after start-up: no rows, nothing bound, nothing called.
Init ==
    /\ DomainInit
    /\ TenantTableEmpty
    /\ TenantInit
    /\ NoInstances
    /\ DeleteIdle
    /\ CheckIdle

\* One unit of work at a time calls DomainMixin.save.
NextSave == SaveStep("w1")
SpecSave == Init /\ [][NextSave]_vars
Spec == SpecSave

\* One unit of work at a time calls DomainMixin.save, also on records whose
\* tenant it has changed.
NextMove == SaveStep("w1") \/ BeginMove("w1")
SpecMove == Init /\ [][NextMove]_vars

\* Units of work call DomainMixin.save concurrently, each in its own transaction.
NextConcurrent == \E p \in Procs : SaveStep(p) \/ DeadlockAbort(p)
SpecConcurrent == Init /\ [][NextConcurrent]_vars

\* Tenants are constructed and saved, bound to the connection and resolved.
InitTenant ==
    /\ DomainInit
    /\ TenantTableEmpty
    /\ TenantInit
    /\ tinst \in NewInstances
    /\ DeleteIdle
    /\ CheckIdle
NextTenant == SetTenant \/ CallGetTenant \/ SaveTenant
SpecTenant == InitTenant /\ [][NextTenant]_vars

\* A tenant table with rows, and a batch delete over some of them.
InitDelete ==
    /\ DomainInit
    /\ TenantInit
    /\ NoInstances
    /\ DeleteIdle
    /\ CheckIdle
    /\ \E n \in 0..MaxBatch :
          /\ ttable = [k \in 1..n |-> [schema_name |-> k]]
          /\ tnextpk = n + 1
NextDelete == QuerysetDelete
SpecDelete == InitDelete /\ [][NextDelete]_vars

\* The system checks run over a model class.
InitCheck ==
    /\ DomainInit
    /\ TenantTableEmpty
    /\ TenantInit
    /\ NoInstances
    /\ DeleteIdle
    /\ cls \in Classes
    /\ NotChecked
NextCheck == RunCheck
SpecCheck == InitCheck /\ [][NextCheck]_vars

\* ------------------------------------------------------------------ claims
PrimariesOf(t) == {k \in DOMAIN db : db[k].tenant = t /\ db[k].is_primary}
RecordsOf(t) == {k \in DOMAIN db : db[k].tenant = t}

\* C1: after any sequence of one-at-a-time saves that keep each record's tenant,
\* every tenant that owns a domain record has exactly one primary record.
C1_ExactlyOnePrimary ==
    \A t \in Tenants : RecordsOf(t) # {} => Cardinality(PrimariesOf(t)) = 1

\* A re-save asking for non-primary has committed for a tenant with several records.
C1_Witness ==
    /\ tx["w1"].pc = "done"
    /\ ~tx["w1"].isNew
    /\ ~tx["w1"].req
    /\ Cardinality(RecordsOf(tx["w1"].tenant)) >= 2

\* C2: with concurrent saves under read committed, no committed state has two
\* primary records of one tenant.
C2_NoTwoPrimaries ==
    \A t \in Tenants : Cardinality(PrimariesOf(t)) <= 1

\* C9: when no other record of the tenant is primary at save time (in particular
\* for a tenant's first record), the record is persisted as primary whatever
\* is_primary value was requested.
C9_ForcedPrimary ==
    \A p \in Procs :
        (tx[p].pc = "done" /\ tx[p].before = {}) => db[tx[p].pk].is_primary

\* The first record of a tenant, saved with is_primary = false, has committed.
C9_Witness ==
    /\ tx["w1"].pc = "done"
    /\ tx["w1"].isNew
    /\ ~tx["w1"].req
    /\ RecordsOf(tx["w1"].tenant) = {tx["w1"].pk}

IsPrim(k) == k \in DOMAIN db /\ db[k].is_primary

\* C10: saving a new record d2 with is_primary = true for a tenant whose primary
\* is d1 ends with d1 non-primary and d2 primary, and every committed state from
\* the start of the save to its commit has exactly one of d1 and d2 primary.
C10_AtomicSwitch ==
    \A p \in Procs :
        (tx[p].isNew /\ tx[p].req /\ tx[p].pc \notin {"idle", "failed"}) =>
            \A d1 \in tx[p].before :
                /\ IsPrim(d1) # IsPrim(tx[p].pk)
                /\ tx[p].pc = "done" => (~IsPrim(d1) /\ IsPrim(tx[p].pk))

\* Such a save has committed.
C10_Witness ==
    /\ tx["w1"].pc = "done"
    /\ tx["w1"].isNew
    /\ tx["w1"].req
    /\ tx["w1"].before # {}

\* C3: get_tenant called while connection.tenant is None raises and yields no
\* tenant, whatever was saved, bound or resolved before.
C3_NoTenantBoundFails ==
    (resolved.called /\ resolved.conn.kind = "none") =>
        (resolved.out.raised /\ resolved.out.tenant = NoTenant)

\* get_tenant was called with nothing bound while saved tenants exist.
C3_Witness ==
    /\ resolved.called
    /\ resolved.conn.kind = "none"
    /\ DOMAIN ttable # {}

\* C6: post_schema_sync is sent exactly once per tenant identity: by the first
\* successful save, and by no later save.
C6_SentExactlyOnce ==
    \A o \in Insts : signals[o] = IF tinst[o].pk # NoPk THEN 1 ELSE 0

\* The counts of the outcomes obj.delete() returned, added up; per table for the
\* detail map.
SumCounts(outs) ==
    LET f[i \in 0..Len(outs)] ==
            IF i = 0 THEN 0
            ELSE f[i - 1] + (IF outs[i].kind = "tuple" THEN outs[i].count ELSE 0)
    IN  f[Len(outs)]

SumDetail(outs, t) ==
    LET f[i \in 0..Len(outs)] ==
            IF i = 0 THEN 0
            ELSE f[i - 1] + (IF outs[i].kind = "tuple" /\ t \in DOMAIN outs[i].detail
                             THEN outs[i].detail[t] ELSE 0)
    IN  f[Len(outs)]

\* C4: the summary a batch delete returns has rows_affected equal to the sum of
\* the per-entity counts, and its detail map holds for every table the sum of
\* that table's counts over all per-entity outcomes.
C4_SumsPerTable ==
    (deleted.called /\ deleted.returned = "tuple") =>
        /\ deleted.counter = SumCounts(deleted.outs)
        /\ \A t \in Tables :
              SumDetail(deleted.outs, t) =
                  IF t \in DOMAIN deleted.counter_dict THEN deleted.counter_dict[t] ELSE 0

\* The first position of the batch whose obj.delete() raises (0 if none does).
FirstRaise(outs) ==
    IF \E i \in DOMAIN outs : outs[i].kind = "raise"
    THEN CHOOSE i \in DOMAIN outs :
            /\ outs[i].kind = "raise"
            /\ \A j \in 1..(i - 1) : outs[j].kind # "raise"
    ELSE 0

\* C5: if the delete of an entity of the batch raises, the batch delete raises:
\* it returns no outcome, and the entities after the failing one are not deleted
\* by the call.
C5_FailsWhole ==
    (deleted.called /\ FirstRaise(deleted.outs) # 0) =>
        /\ deleted.returned = "raised"
        /\ deleted.counter = 0 /\ deleted.counter_dict = Empty
        /\ \A j \in (FirstRaise(deleted.outs) + 1)..Len(deleted.batch) :
              /\ deleted.batch[j] \notin deleted.gone
              /\ deleted.batch[j] \in DOMAIN ttable

\* A batch of three whose second delete raised, the others being deletable.
C5_Witness ==
    /\ deleted.called
    /\ Len(deleted.batch) = 3
    /\ deleted.outs[1].removed /\ deleted.outs[1].kind = "tuple"
    /\ deleted.outs[2].kind = "raise"
    /\ deleted.outs[3].removed /\ deleted.outs[3].kind = "tuple"

\* C7: check() returns a list of messages and never raises, whatever the class:
\* also for a class with no tenant field that declares unique_together.
C7_NeverRaises ==
    checked.ran => checked.result.raised = "none"

Criticals(errors) == SelectSeq(errors, LAMBDA m : m.level = "Critical")

\* C8: for every class with no field named tenant, check() returns exactly one
\* Critical, whose message and id name the class; for a class that has the
\* field, the messages check() returns hold no Critical.
C8_OneCriticalPerTable ==
    checked.ran =>
        LET all == Criticals(checked.result.errors)
        IN  IF \E i \in DOMAIN cls.fields : cls.fields[i].name = "tenant"
            THEN all = <<>>
            ELSE /\ checked.result.raised = "none"
                 /\ Len(all) = 1
                 /\ all[1].id = <<"tenant_schemas", cls.object_name, "tenant_field", "C001">>
                 /\ all[1].msg = <<"tenant field not present in", cls.object_name>>

\* The rows left after obj.delete() was called on the entities of batch one by
\* one, outside of any queryset.
RowsAfterIndividualDeletes(rows, batch, outs) ==
    LET f[i \in 0..Len(batch)] ==
            IF i = 0 THEN rows
            ELSE f[i - 1] \ (IF outs[i].removed THEN {batch[i]} ELSE {})
    IN  f[Len(batch)]

\* C11: when the delete of every entity of the batch ran (none raised), the
\* table is as after deleting those entities one by one, and the summary is the
\* combination of the individual outcomes: counts added up, per table for the
\* detail map, and no summary when nothing was counted.
C11_SameAsIndividualDeletes ==
    (deleted.called /\ FirstRaise(deleted.outs) = 0) =>
        /\ DOMAIN ttable =
              RowsAfterIndividualDeletes(deleted.before, deleted.batch, deleted.outs)
        /\ (deleted.returned = "none") = (SumCounts(deleted.outs) = 0)
        /\ deleted.counter = SumCounts(deleted.outs)
        /\ \A t \in Tables :
              (IF t \in DOMAIN deleted.counter_dict THEN deleted.counter_dict[t] ELSE 0)
                  = SumDetail(deleted.outs, t)

\* The tables named by the outcomes obj.delete() returned.
TablesReported(outs) ==
    UNION {DOMAIN outs[i].detail : i \in {j \in DOMAIN outs : outs[j].kind = "tuple"}}

\* C12: a batch delete that does not raise returns None exactly when the counts
\* of the batch add up to zero; otherwise it returns the total and a detail map
\* over the tables the outcomes name; an obj.delete() that returned None adds
\* nothing to the total or to the map.
C12_NoneIffZero ==
    (deleted.called /\ deleted.returned # "raised") =>
        /\ (deleted.returned = "none") = (SumCounts(deleted.outs) = 0)
        /\ deleted.returned = "tuple" =>
              /\ deleted.counter = SumCounts(deleted.outs)
              /\ DOMAIN deleted.counter_dict = TablesReported(deleted.outs)

\* A batch of three whose deletes returned None (the first one removing its
\* row) or a zero count, so that the batch delete returned None.
C12_Witness ==
    /\ deleted.called
    /\ Len(deleted.batch) = 3
    /\ deleted.outs[1].kind = "none" /\ deleted.outs[1].removed
    /\ deleted.outs[2].kind = "tuple" /\ deleted.outs[2].count = 0
    /\ deleted.outs[3].kind = "none"
    /\ deleted.returned = "none"

\* The messages of one check ("tenant_field", "m2m_field", ...) among errors.
OfCheck(errors, check) == SelectSeq(errors, LAMBDA m : m.id[3] = check)
WithId(errors, id) == SelectSeq(errors, LAMBDA m : m.id = id)

\* C14: for every ManyToManyField of the class, check() returns exactly one
\* Warning m2m_field.W001 naming the through model and no W002 for it when the
\* through model has no tenant field, exactly one W002 and no W001 when its
\* tenant field is not an RLSForeignKey, and neither when it is one.
C14_M2MWarnings ==
    checked.ran =>
        \A i \in DOMAIN cls.fields :
            LET f == cls.fields[i]
                name == f.through.object_name
                w1 == WithId(checked.result.errors,
                             <<"tenant_schemas", name, "m2m_field", "W001">>)
                w2 == WithId(checked.result.errors,
                             <<"tenant_schemas", name, "m2m_field", "W002">>)
            IN  f.kind = "ManyToManyField" =>
                    IF f.through.tenant = "absent"
                    THEN /\ Len(w1) = 1 /\ Len(w2) = 0
                         /\ w1[1].level = "Warning"
                         /\ w1[1].msg[3] = name
                    ELSE IF f.through.tenant # "RLSForeignKey"
                    THEN Len(w1) = 0 /\ Len(w2) = 1 /\ w2[1].level = "Warning"
                    ELSE Len(w1) = 0 /\ Len(w2) = 0

\* The fields _run_check_uniques is to warn about: unique, not a relation, not
\* the primary key.
UniqueColumns(c) ==
    {i \in DOMAIN c.fields :
        /\ c.fields[i].unique
        /\ ~IsRelatedField(c.fields[i])
        /\ ~c.fields[i].primary_key}

\* C15: check() returns exactly one Warning unique.W001 for each field that is
\* unique, not a relation and not the primary key, and none for any other
\* field; a class whose only such field is email gets exactly one.
C15_UniqueWarnings ==
    checked.ran =>
        LET ws == OfCheck(checked.result.errors, "unique")
        IN  /\ Len(ws) = Cardinality(UniqueColumns(cls))
            /\ \A k \in DOMAIN ws :
                  /\ ws[k].level = "Warning"
                  /\ ws[k].id = <<"tenant_schemas", cls.object_name, "unique", "W001">>
            /\ \A i \in DOMAIN cls.fields :
                  Len(SelectSeq(ws, LAMBDA m : m.msg[2] = cls.fields[i].name))
                      = IF i \in UniqueColumns(cls) THEN 1 ELSE 0

\* C16: for a class that has a field named tenant, check() returns one Warning
\* unique_together_without_tenant.W001 for each unique_together constraint that
\* does not hold the tenant field and none for a constraint that holds it.
C16_UniqueTogetherWarnings ==
    (checked.ran /\ GetTenantField(cls) # NoField) =>
        LET ws == OfCheck(checked.result.errors, "unique_together_without_tenant")
            missing == {i \in DOMAIN cls.unique_together :
                            "tenant" \notin cls.unique_together[i]}
        IN  /\ Len(ws) = Cardinality(missing)
            /\ \A k \in DOMAIN ws :
                  /\ ws[k].level = "Warning"
                  /\ "tenant" \notin ws[k].msg[3]
            /\ \A i \in missing :
                  \E k \in DOMAIN ws : ws[k].msg[3] = cls.unique_together[i]

\* The place of a check in check(): lines 78 to 81.
CheckRank(check) ==
    CASE check = "tenant_field" -> 1
      [] check = "m2m_field" -> 2
      [] check = "unique_together_without_tenant" -> 3
      [] check = "unique" -> 4

\* C20: the messages check() returns are in the order tenant field, m2m fields,
\* unique_together, uniques; the tenant-field check gives one Critical for a
\* class without the field, one Warning for a field that is not an
\* RLSForeignKey and nothing otherwise; the same class gives the same messages
\* each time.
C20_FixedOrder ==
    checked.ran =>
        LET errors == checked.result.errors
            tf == OfCheck(errors, "tenant_field")
            tenant_field == GetTenantField(cls)
        IN  /\ \A i, j \in DOMAIN errors :
                  i < j => CheckRank(errors[i].id[3]) <= CheckRank(errors[j].id[3])
            /\ IF tenant_field = NoField
               THEN Len(tf) = 1 /\ tf[1].level = "Critical"
               ELSE IF ~IsRLSForeignKey(tenant_field.kind)
               THEN Len(tf) = 1 /\ tf[1].level = "Warning"
               ELSE tf = <<>>
            /\ checked.result = Check(cls)

\* The stored is_primary value of every record.
PrimaryFlags(table) == [k \in DOMAIN table |-> table[k].is_primary]

\* C17: when super().save() fails inside DomainMixin.save (the store rejects a
\* duplicate domain), the save ends with that error and the stored is_primary
\* value of every record is what it was when the save started, also when the
\* other primaries of the tenant had been demoted before.
C17_AllOrNothing ==
    \A p \in Procs :
        tx[p].pc = "failed" =>
            /\ PrimaryFlags(db) = PrimaryFlags(tx[p].start)
            /\ tx[p].wr = Empty

\* A save as primary demoted the tenant's other primary and then failed on a
\* duplicate domain.
C17_Witness ==
    /\ tx["w1"].pc = "failed"
    /\ tx["w1"].is_primary
    /\ tx["w1"].before # {}
    /\ DomainHolders(db, tx["w1"].pk, tx["w1"].domain) # {}

\* C19: a committed save of a record of tenant t leaves every record of another
\* tenant as it was, changes no other record of t except by turning a primary
\* one non-primary, and changes no other record at all when the saved record
\* ends non-primary.
C19_Frame ==
    \A p \in Procs :
        tx[p].pc = "done" =>
            LET start == tx[p].start
                others == DOMAIN db \ {tx[p].pk}
            IN  /\ others = DOMAIN start \ {tx[p].pk}
                /\ \A k \in others :
                      /\ start[k].tenant # tx[p].tenant => db[k] = start[k]
                      /\ db[k] # start[k] =>
                            /\ start[k].tenant = tx[p].tenant
                            /\ start[k].is_primary
                            /\ db[k] = [start[k] EXCEPT !.is_primary = FALSE]
                /\ ~db[tx[p].pk].is_primary => \A k \in others : db[k] = start[k]

\* A save as primary has committed for one tenant while another tenant owns a
\* primary record.
C19_Witness ==
    /\ tx["w1"].pc = "done"
    /\ db[tx["w1"].pk].is_primary
    /\ \E k \in DOMAIN tx["w1"].start :
          /\ k # tx["w1"].pk
          /\ tx["w1"].start[k].tenant # tx["w1"].tenant
          /\ tx["w1"].start[k].is_primary
          /\ db[k].is_primary

\* C18: after a committed save that moved a record from tenant t1 to tenant
\* t2, each of t1 and t2 that owns a record has exactly one primary record.
C18_OnePrimaryAfterMove ==
    \A p \in Procs :
        (/\ tx[p].pc = "done"
         /\ tx[p].pk \in DOMAIN tx[p].start
         /\ tx[p].start[tx[p].pk].tenant # tx[p].tenant) =>
            \A t \in {tx[p].start[tx[p].pk].tenant, tx[p].tenant} :
                RecordsOf(t) # {} => Cardinality(PrimariesOf(t)) = 1

====
